---- MODULE Spec2Model ----
(***************************************************************************)
(* Model of the discord-rpc client: the facade Rpc (caller's thread), the  *)
(* session loop run_io_thread (background thread), the Connection with its *)
(* framing, the Backoff, and the peer at the other end of the transport.   *)
(***************************************************************************)
EXTENDS Integers, Sequences, FiniteSets, TLC

(* ------------------------------ bounds -------------------------------- *)
MaxNonce == 3        \* nonce-bearing commands the caller issues in a run
MaxSessions == 2     \* transports the peer accepts in a run
MaxFrames == 2       \* frames the peer sends on one transport
MaxInbound == 1      \* frames the peer has sent that the client has not read yet
MaxDelay == 3        \* Backoff::max, in units of Backoff::min (60 s in the source)
MaxToggles == 2      \* handler installs/removals inside one modify_handlers closure
MaxModifyNonce == 3      \* the last nonce at which modify_handlers is called
MaxBackoff == 5          \* the largest min and max of a Backoff under SpecBackoff

MaxWindow == 3       \* nonce values from which a command is started under SpecNonce

MinDelay == 1        \* Backoff::min, the unit of time of the model (500 ms)
I32_MAX == 2147483647    \* the largest value of the i32 of struct Nonce

(* ----------------------------- constants ------------------------------ *)
NoUser == "null"
NoError == [message |-> "", code |-> 0]
PIPE_CLOSED == 1
READ_CORRUPT == 2

Togglable == {"join_game", "spectate_game", "join_request"}
HandlerNames == {"connect", "disconnect", "error"} \cup Togglable

(* An inbound frame as the code sees it: the opcode of its header, whether *)
(* its payload is shorter than the header's length, and what the payload   *)
(* holds: the JSON fields cmd, evt and data ("" where the payload is no    *)
(* JSON object holding that field).                                        *)
Fr(op, short, cmd, evt, data) ==
    [op |-> op, short |-> short, cmd |-> cmd, evt |-> evt, data |-> data]

PeerFrames ==
    { Fr("FRAME", FALSE, "DISPATCH", "READY", "user:null"),
      Fr("FRAME", FALSE, "DISPATCH", "READY", "user:u1"),
      Fr("FRAME", FALSE, "SET_ACTIVITY", "READY", "user:null"),
      Fr("FRAME", FALSE, "DISPATCH", "ERROR", "err:bye:1"),
      Fr("FRAME", FALSE, "DISPATCH", "ACTIVITY_JOIN", "secret:s1"),
      Fr("FRAME", FALSE, "DISPATCH", "ACTIVITY_JOIN", "{}"),
      Fr("FRAME", FALSE, "DISPATCH", "ACTIVITY_SPECTATE", "secret:s1"),
      Fr("FRAME", FALSE, "DISPATCH", "ACTIVITY_JOIN_REQUEST", "user:u1"),
      Fr("FRAME", FALSE, "", "", ""),
      Fr("FRAME", TRUE, "", "", ""),
      Fr("CLOSE", FALSE, "", "", "err:bye:1"),
      Fr("CLOSE", FALSE, "", "", ""),
      Fr("PING", FALSE, "", "", ""),
      Fr("PONG", FALSE, "", "", ""),
      Fr("UNKNOWN", FALSE, "", "", "") }

VARIABLES
    \* Rpc (the facade, caller's thread)
    handlers,          \* the names of the installed EventHandlers slots
    nonce,             \* Rpc.nonce
    cpc,               \* the caller's position
    \* SharedState
    presence,          \* SharedState.presence: the buffer, a sequence of payloads
    presence_updated,  \* SharedState.presence_updated
    is_connected,      \* SharedState.is_connected
    stopped,           \* SharedState.stopped
    \* the two channels
    message_q,         \* message_tx -> message_rx
    event_q,           \* event_tx -> event_rx
    \* run_io_thread and its Connection
    pc,                \* the background thread's position
    conn,              \* Connection: [transport, is_connected]
    backoff,           \* ReconnectionTime.backoff.current_delay
    until_next,        \* ReconnectionTime.next_time - Instant::now(), floored at 0
    \* the transport and the peer behind it
    pipe,              \* "none" | "open" | "closed" (the peer closed its end)
    inbound,           \* frames the peer sent, not yet read
    sessions,          \* history: transports opened so far
    frames,            \* history: frames the peer sent on the current transport
    \* history
    last,              \* what the last Connection call returned and invoked
    burst,             \* the update_presence calls completed since the last test
                       \* of presence_updated: how many, whether the session was
                       \* Ready throughout each, the payload of the last one
    taken,             \* burst as the last test of presence_updated found it
    modify,            \* the last modify_handlers call: its had_*_handler locals
                       \* and (history) the handlers before it, the slots its
                       \* closure installed and removed again, the commands sent
    ran,               \* history: the callback the caller's last step ran
    sent_events        \* history: how many events event_tx has sent

vars == << handlers, nonce, cpc, presence, presence_updated, is_connected, stopped,
           message_q, event_q, pc, conn, backoff, until_next, pipe, inbound,
           sessions, frames, last, burst, taken, modify, ran, sent_events >>

(* ------------------------------ Backoff ------------------------------- *)
Min(a, b) == IF a <= b THEN a ELSE b

\* Backoff::new
Backoff_new(min, max) == [min |-> min, max |-> max, current_delay |-> min]

\* Backoff::reset leaving the delay as it is
Backoff_reset_noop(b) == b

\* Backoff::reset
Backoff_reset(b) == [b EXCEPT !.current_delay = b.min]

\* The values current_delay.mul_f32(2.0 * random::<f32>()) can take, in whole
\* units: random::<f32>() lies in [0, 1), so the product lies in [0, 2 * delay).
Increments(b) == IF b.current_delay = 0 THEN {0} ELSE 0 .. (2 * b.current_delay - 1)

\* Backoff::next without the .min(self.max)
Backoff_next_uncapped(b, inc) ==
    [b EXCEPT !.current_delay = b.current_delay + inc]

\* Backoff::next, for the increment inc the random draw gives; the delay it
\* returns is the new current_delay.
Backoff_next(b, inc) ==
    [b EXCEPT !.current_delay = Min(b.current_delay + inc, b.max)]

(* ------------------------------ messages ------------------------------ *)
\* An outbound payload: the command, its nonce, its argument; live and sess
\* are history: whether the Connection was Ready when the caller submitted it
\* and how many transports had been opened by then.
Payload(cmd, n, arg, live, sess) ==
    [cmd |-> cmd, nonce |-> n, arg |-> arg, live |-> live, sess |-> sess]

\* A frame on the wire: the opcode and the payloads its body is made of.
WireFrame(op, body) == [op |-> op, body |-> body]

\* messages::Handshake, serialized
HandshakePayload == Payload("HANDSHAKE", 0, "app_id", TRUE, 0)

\* Nonce::next with saturating_add(1)
Nonce_next_saturating(n) == IF n = 2147483647 THEN n ELSE n + 1

\* Nonce::next: the value after wrapping_add(1) on an i32
Nonce_next(n) == IF n = 2147483647 THEN -2147483647 - 1 ELSE n + 1

\* the payload of a CLOSE frame never taken for an error
ParseStreamError_none(data) == NoError

\* serde_json::from_slice::<StreamError>: a {message, code} object or nothing
ParseStreamError(data) ==
    IF data = "err:bye:1" THEN [message |-> "bye", code |-> 1] ELSE NoError

\* serde_json::from_slice::<messages::HandshakeReply>: cmd and evt strings and
\* a data object; data.user is optional
ParsesAsHandshakeReply(f) == f.cmd # "" /\ f.evt # "" /\ f.data # ""
HandshakeUser(f) == IF f.data = "user:u1" THEN "u1" ELSE NoUser

\* serde_json::from_slice::<messages::Event>: an evt string and a data object
ParsesAsEvent(f) == f.evt # "" /\ f.data # ""

\* serde_json::from_slice::<T> in read_json::<T>
ParsesAs(T, f) ==
    IF T = "HandshakeReply" THEN ParsesAsHandshakeReply(f) ELSE ParsesAsEvent(f)

(* ------------------------------- events ------------------------------- *)
Ev(kind, arg, err) == [kind |-> kind, arg |-> arg, err |-> err]
Connected(user) == Ev("Connected", user, NoError)
Disconnected(err) == Ev("Disconnected", "", err)

\* event_tx.send of the events evs: each joins the queue behind those
\* already in it; seq (history) numbers the events in the order of the sends.
RECURSIVE Send(_, _, _)
Send(q, evs, n) ==
    IF evs = << >> THEN q
    ELSE Send(Append(q, [ev |-> Head(evs), seq |-> n + 1]), Tail(evs), n + 1)

\* The match of run_io_thread on message.event: the events one inbound
\* message makes the loop send to the facade.
Dispatch(f) ==
    CASE f.evt = "ERROR" ->
           IF ParseStreamError(f.data) # NoError
           THEN << Ev("GotError", "", ParseStreamError(f.data)) >> ELSE << >>
      [] f.evt = "ACTIVITY_JOIN" ->
           IF f.data = "secret:s1" THEN << Ev("GameJoined", "s1", NoError) >> ELSE << >>
      [] f.evt = "ACTIVITY_SPECTATE" ->
           IF f.data = "secret:s1"
           THEN << Ev("StartedSpectating", "s1", NoError) >> ELSE << >>
      [] f.evt = "ACTIVITY_JOIN_REQUEST" ->
           IF f.data = "user:u1" THEN << Ev("JoinRequested", "u1", NoError) >> ELSE << >>
      [] OTHER -> << >>

\* The handler slot check_events runs for an event
HandlerOf(kind) ==
    CASE kind = "Connected" -> "connect"
      [] kind = "Disconnected" -> "disconnect"
      [] kind = "GotError" -> "error"
      [] kind = "GameJoined" -> "join_game"
      [] kind = "StartedSpectating" -> "spectate_game"
      [] kind = "JoinRequested" -> "join_request"

(* ----------------------------- Connection ----------------------------- *)
\* Connection::new
Connection_new == [transport |-> FALSE, is_connected |-> FALSE]

StreamError(message, code) == [message |-> message, code |-> code]

\* the error of a failed payload read taken from the header read's arm
PartialData_as_pipe_closed == StreamError("Pipe closed", PIPE_CLOSED)

\* The error read_json builds when read_exact of the payload fails
PartialData == StreamError("Partial data in frame", READ_CORRUPT)

\* What one pass of the loop of Connection::read_json does with the state of
\* the transport, for the type T it deserializes: result is what the call returns ("Continue": the loop goes
\* on to the next header), closes whether close_with_error ran, err the
\* error it was given, pong whether a PONG frame was written; ok is the
\* outcome of the write of the PONG, if one is written.
ReadStep(c, inb, p, T, ok) ==
    LET R(result, closes, err, pong, took) ==
            [result |-> result, closes |-> closes, err |-> err, pong |-> pong,
             took |-> took]
    IN  IF ~c.transport THEN R("Disconnected", FALSE, NoError, FALSE, FALSE)
        ELSE IF inb = << >> THEN
            IF p = "closed"
            THEN R("Stream", TRUE, StreamError("Pipe closed", PIPE_CLOSED), FALSE, FALSE)
            ELSE R("None", FALSE, NoError, FALSE, FALSE)
        ELSE LET f == Head(inb) IN
            IF f.short
            THEN R("Stream", TRUE, PartialData, FALSE, TRUE)
            ELSE CASE f.op = "CLOSE" -> R("Stream", TRUE, ParseStreamError(f.data), FALSE, TRUE)
                   [] f.op = "FRAME" ->
                        IF ParsesAs(T, f) THEN R("Some", FALSE, NoError, FALSE, TRUE)
                        ELSE R("Json", FALSE, NoError, FALSE, TRUE)
                   [] f.op = "PING" ->
                        IF ok THEN R("Continue", FALSE, NoError, TRUE, TRUE)
                        ELSE R("Io", TRUE, NoError, FALSE, TRUE)
                   [] f.op = "PONG" -> R("Continue", FALSE, NoError, FALSE, TRUE)
                   [] OTHER ->
                        R("Stream", TRUE, StreamError("Bad frame", READ_CORRUPT), FALSE, TRUE)

\* close_with_error without `self.connection = None`
close_with_error_keep(c) == [c EXCEPT !.is_connected = FALSE]

\* Connection::close_with_error, the part on the Connection itself: the
\* Connection as on_disconnect finds it
close_with_error(c) == [transport |-> FALSE, is_connected |-> FALSE]

\* is_connected answering for the transport instead of the handshake
Connection_is_connected_transport(c) == c.transport

\* Connection::is_connected
Connection_is_connected(c) == c.is_connected

\* write_raw_message: the outcomes write_all can have on the transport, TRUE
\* for Ok. The stream is non-blocking (set_nonblocking(true) in
\* BaseConnection::open), so besides failing once the peer has closed its end
\* a write can fail with WouldBlock while the transport stays usable.
WriteOutcomes(p) == IF p = "open" THEN BOOLEAN ELSE {FALSE}

\* Connection::write_raw: the frames it puts on the wire when the write has
\* the outcome ok
write_raw(c, ok, body) ==
    IF c.transport /\ ok THEN << WireFrame("FRAME", body) >> ELSE << >>

\* what Connection::write_raw returns
write_raw_result(c, ok) ==
    IF c.transport THEN (IF ok THEN "Ok" ELSE "Io") ELSE "Disconnected"

(* ------------------------- the initial state -------------------------- *)
\* No Connection call has been made in the last step
Quiet == [call |-> "none", result |-> "", err |-> NoError, nexts |-> 0,
          resets |-> 0, connects |-> 0, disconnects |-> 0, wrote |-> << >>]

\* The last step called `call`, which returned `result`; err is the error
\* given to on_disconnect, nexts and resets count the calls of Backoff::next
\* and Backoff::reset, connects and disconnects those of on_connect and
\* on_disconnect, wrote are the frames written to the transport.
Called(call, result, err, nexts, resets, connects, disconnects, wrote) ==
    [call |-> call, result |-> result, err |-> err, nexts |-> nexts,
     resets |-> resets, connects |-> connects, disconnects |-> disconnects,
     wrote |-> wrote]

NoPayload == Payload("", 0, "", FALSE, 0)
NoModify == [had |-> {}, before |-> {}, undone |-> {}, sent |-> << >>, done |-> FALSE]
NoCallback == [slot |-> "", thread |-> "", ev |-> Ev("", "", NoError), seq |-> 0]
NoBurst == [n |-> 0, ready |-> TRUE, pay |-> NoPayload]

\* the state after construction with presence_updated already set
InitWith_dirty(H, B) ==
    /\ handlers \in H
    /\ nonce = 1
    /\ cpc = "idle"
    /\ presence = << >>
    /\ presence_updated = TRUE
    /\ is_connected = FALSE
    /\ stopped = FALSE
    /\ message_q = << >>
    /\ event_q = << >>
    /\ pc = "loop"
    /\ conn = Connection_new
    /\ backoff \in B
    /\ until_next = 0
    /\ pipe = "none"
    /\ inbound = << >>
    /\ sessions = 0
    /\ frames = 0
    /\ last = Quiet
    /\ burst = NoBurst
    /\ taken = NoBurst
    /\ modify = NoModify
    /\ ran = NoCallback
    /\ sent_events = 0

\* Rpc::new with one of the handler sets H, SharedState, Connection::new and
\* ReconnectionTime::new
InitWith(H, B) ==
    /\ handlers \in H
    /\ nonce = 1
    /\ cpc = "idle"
    /\ presence = << >>
    /\ presence_updated = FALSE
    /\ is_connected = FALSE
    /\ stopped = FALSE
    /\ message_q = << >>
    /\ event_q = << >>
    /\ pc = "loop"
    /\ conn = Connection_new
    /\ backoff \in B
    /\ until_next = 0
    /\ pipe = "none"
    /\ inbound = << >>
    /\ sessions = 0
    /\ frames = 0
    /\ last = Quiet
    /\ burst = NoBurst
    /\ taken = NoBurst
    /\ modify = NoModify
    /\ ran = NoCallback
    /\ sent_events = 0

rpcVars == << handlers, nonce, cpc, modify, ran >>
callerVars == << rpcVars, burst, taken >>
transportVars == << pipe, inbound, sessions, frames >>

(* ----------------------- the background thread ------------------------ *)
\* the test of next_time always passing
ReconnectDue_always(u) == TRUE

\* Instant::now() >= reconnection_time.next_time
ReconnectDue(u) == u = 0

\* The head of the loop of run_io_thread: the test of stopped, the test
\* of connection.is_connected() and, when not connected, the test of
\* next_time with ReconnectionTime::calc_next before the open.
LoopHead ==
    /\ pc = "loop"
    /\ last' = IF stopped
               THEN Called("exit", IF conn.transport THEN "released" ELSE "", NoError,
                           0, 0, 0, 0, << >>)
               ELSE Quiet
    /\ UNCHANGED << callerVars, presence, presence_updated, is_connected, stopped,
                    message_q, event_q, sent_events, sessions, frames >>
    /\ IF stopped
       THEN \* the thread returns and its Connection is dropped
            /\ pc' = "done"
            /\ conn' = Connection_new
            /\ pipe' = "none"
            /\ inbound' = << >>
            /\ UNCHANGED << backoff, until_next >>
       ELSE IF Connection_is_connected(conn)
       THEN /\ pc' = "drain"
            /\ UNCHANGED << conn, pipe, inbound, backoff, until_next >>
       ELSE IF ReconnectDue(until_next)
       THEN \E inc \in Increments(backoff) :
              /\ backoff' = Backoff_next(backoff, inc)
              /\ until_next' = backoff'.current_delay
              /\ pc' = "open"
              /\ UNCHANGED << conn, pipe, inbound >>
       ELSE /\ pc' = "publish"
            /\ UNCHANGED << conn, pipe, inbound, backoff, until_next >>

\* read_json answering no PING
Pong_none(r) == << >>

\* The frames one pass of read_json writes
Pong(r) == IF r.pong THEN << WireFrame("PONG", << >>) >> ELSE << >>

\* close_with_error without the call of on_disconnect's event_tx.send
ReadEffects_silent(r, ready, extra, reset) ==
    /\ conn' = IF r.closes THEN close_with_error(conn)
               ELSE [conn EXCEPT !.is_connected = @ \/ ready]
    /\ pipe' = IF r.closes THEN "none" ELSE pipe
    /\ inbound' = IF r.closes THEN << >>
                  ELSE IF r.took THEN Tail(inbound) ELSE inbound
    /\ LET evs == extra
       IN  /\ event_q' = Send(event_q, evs, sent_events)
           /\ sent_events' = sent_events + Len(evs)
    /\ IF r.closes
       THEN \E inc \in Increments(backoff) :
              /\ backoff' = Backoff_next(backoff, inc)
              /\ until_next' = backoff'.current_delay
       ELSE /\ backoff' = IF reset THEN Backoff_reset(backoff) ELSE backoff
            /\ UNCHANGED until_next
    /\ UNCHANGED << sessions, frames >>

\* The effect of one pass of read_json on the Connection, the transport
\* and the ReconnectionTime (on_disconnect runs when it closes); extra are
\* the events the caller of read_json sends after it, reset whether
\* on_connect resets the backoff.
ReadEffects(r, ready, extra, reset) ==
    /\ conn' = IF r.closes THEN close_with_error(conn)
               ELSE [conn EXCEPT !.is_connected = @ \/ ready]
    /\ pipe' = IF r.closes THEN "none" ELSE pipe
    /\ inbound' = IF r.closes THEN << >>
                  ELSE IF r.took THEN Tail(inbound) ELSE inbound
    /\ LET evs == (IF r.closes THEN << Disconnected(r.err) >> ELSE << >>) \o extra
       IN  /\ event_q' = Send(event_q, evs, sent_events)
           /\ sent_events' = sent_events + Len(evs)
    /\ IF r.closes
       THEN \E inc \in Increments(backoff) :
              /\ backoff' = Backoff_next(backoff, inc)
              /\ until_next' = backoff'.current_delay
       ELSE /\ backoff' = IF reset THEN Backoff_reset(backoff) ELSE backoff
            /\ UNCHANGED until_next
    /\ UNCHANGED << sessions, frames >>

\* One pass of the loop `while let Ok(Some(message)) = connection.read_json()`
\* with the match on message.event.
Drain ==
    /\ pc = "drain"
    /\ \E ok \in WriteOutcomes(pipe) :
       LET r == ReadStep(conn, inbound, pipe, "Event", ok)
           n == IF r.closes THEN 1 ELSE 0
       IN  /\ ReadEffects(r, FALSE,
                          IF r.result = "Some" THEN Dispatch(Head(inbound)) ELSE << >>,
                          FALSE)
           /\ pc' = IF r.result \in {"Some", "Continue"} THEN "drain" ELSE "presence"
           /\ last' = Called("read_json", r.result, r.err, n, 0, 0, n, Pong(r))
    /\ UNCHANGED << callerVars, presence, presence_updated, is_connected, stopped,
                    message_q >>

\* the test leaving presence_updated as it found it
PresenceTest_keep ==
    /\ pc = "presence"
    /\ pc' = IF presence_updated THEN "presence_write" ELSE "messages"
    /\ last' = Quiet
    /\ taken' = IF presence_updated THEN burst ELSE NoBurst
    /\ burst' = NoBurst
    /\ UNCHANGED << rpcVars, presence, presence_updated, is_connected, stopped,
                    message_q, event_q, sent_events, conn, backoff, until_next,
                    transportVars >>

\* presence_updated.compare_exchange(true, false)
PresenceTest ==
    /\ pc = "presence"
    /\ pc' = IF presence_updated THEN "presence_write" ELSE "messages"
    /\ presence_updated' = FALSE
    /\ last' = Quiet
    /\ taken' = IF presence_updated THEN burst ELSE NoBurst
    /\ burst' = NoBurst
    /\ UNCHANGED << rpcVars, presence, is_connected, stopped, message_q, event_q,
                    sent_events, conn, backoff, until_next, transportVars >>

\* connection.write_raw(&shared_state.presence.lock()[..])
PresenceWrite ==
    /\ pc = "presence_write"
    /\ pc' = "messages"
    /\ \E ok \in WriteOutcomes(pipe) :
         last' = Called("write_raw", write_raw_result(conn, ok), NoError, 0, 0, 0, 0,
                        write_raw(conn, ok, presence))
    /\ UNCHANGED << rpcVars, burst, taken, presence, presence_updated, is_connected, stopped,
                    message_q, event_q, sent_events, conn, backoff, until_next,
                    transportVars >>

\* the loop taking the newest message of the queue first
Messages_lifo ==
    /\ pc = "messages"
    /\ IF message_q = << >>
       THEN /\ pc' = "publish"
            /\ last' = Quiet
            /\ UNCHANGED message_q
       ELSE /\ pc' = "messages"
            /\ message_q' = SubSeq(message_q, 1, Len(message_q) - 1)
            /\ \E ok \in WriteOutcomes(pipe) :
                 last' = Called("write_raw", write_raw_result(conn, ok), NoError,
                                0, 0, 0, 0,
                                write_raw(conn, ok, << message_q[Len(message_q)] >>))
    /\ UNCHANGED << callerVars, presence, presence_updated, is_connected, stopped,
                    event_q, sent_events, conn, backoff, until_next, transportVars >>

\* One pass of `for message in message_rx.try_iter()`, or its end
Messages ==
    /\ pc = "messages"
    /\ IF message_q = << >>
       THEN /\ pc' = "publish"
            /\ last' = Quiet
            /\ UNCHANGED message_q
       ELSE /\ pc' = "messages"
            /\ message_q' = Tail(message_q)
            /\ \E ok \in WriteOutcomes(pipe) :
                 last' = Called("write_raw", write_raw_result(conn, ok), NoError,
                                0, 0, 0, 0, write_raw(conn, ok, << Head(message_q) >>))
    /\ UNCHANGED << callerVars, presence, presence_updated, is_connected, stopped,
                    event_q, sent_events, conn, backoff, until_next, transportVars >>

\* The test of Connection::open on the reply: command "DISPATCH" and event
\* "READY"
ValidHandshake_cmd_only(f) == f.cmd = "DISPATCH"

ValidHandshake(f) == f.cmd = "DISPATCH" /\ f.evt = "READY"

\* Connection::open with a transport: one pass of its read_json and the
\* validation of the reply
OpenRead ==
    /\ pc = "open"
    /\ conn.transport
    /\ \E ok \in WriteOutcomes(pipe) :
       LET r == ReadStep(conn, inbound, pipe, "HandshakeReply", ok)
           f == Head(inbound)
           valid == r.result = "Some" /\ ValidHandshake(f)
           n == IF r.closes THEN 1 ELSE 0
           c == IF valid THEN 1 ELSE 0
       IN  /\ ReadEffects(r, valid,
                          IF valid THEN << Connected(HandshakeUser(f)) >> ELSE << >>,
                          valid)
           /\ pc' = IF r.result = "Continue" THEN "open" ELSE "publish"
           /\ last' = Called("open",
                             CASE r.result = "Some" ->
                                    IF valid THEN "Ok" ELSE "InvalidHandshake"
                               [] r.result = "None" -> "Ok"
                               [] r.result = "Continue" -> "Continue"
                               [] OTHER -> "HandshakeReceive",
                             r.err, n, c, c, n, Pong(r))
    /\ UNCHANGED << callerVars, presence, presence_updated, is_connected, stopped,
                    message_q >>

\* Connection::open without a transport: BaseConnection::open and the
\* HANDSHAKE frame
OpenTransport(maxSessions) ==
    /\ pc = "open"
    /\ ~conn.transport
    /\ pc' = "publish"
    /\ \/ /\ sessions < maxSessions
          /\ conn' = [conn EXCEPT !.transport = TRUE]
          /\ pipe' = "open"
          /\ inbound' = << >>
          /\ sessions' = sessions + 1
          /\ frames' = 0
          /\ last' = Called("open", "Ok", NoError, 0, 0, 0, 0,
                            << WireFrame("HANDSHAKE", << HandshakePayload >>) >>)
       \/ /\ \E res \in {"Stream", "HandshakeSend"} :
                last' = Called("open", res, NoError, 0, 0, 0, 0, << >>)
          /\ UNCHANGED << conn, transportVars >>
    /\ UNCHANGED << callerVars, presence, presence_updated, is_connected, stopped,
                    message_q, event_q, sent_events, backoff, until_next >>

\* shared_state.is_connected.store(connection.is_connected()) and
\* thread::park_timeout, which returns on unpark or after the timeout
Publish ==
    /\ pc = "publish"
    /\ pc' = "loop"
    /\ is_connected' = Connection_is_connected(conn)
    /\ last' = Quiet
    /\ taken' = NoBurst
    /\ UNCHANGED << rpcVars, burst, presence, presence_updated, stopped, message_q,
                    event_q, sent_events, conn, backoff, until_next, transportVars >>

\* The steps of the loop when no update_presence is ever called: the flag
\* presence_updated stays false, the compare_exchange at 308 always fails and
\* the write at 313 is not reached.
IoLoop(maxSessions) ==
    \/ LoopHead \/ Drain \/ PresenceTest \/ Messages
    \/ OpenRead \/ OpenTransport(maxSessions) \/ Publish

IoThread(maxSessions) == IoLoop(maxSessions) \/ PresenceWrite

(* ------------------------- the peer and time -------------------------- *)
\* what the caller's and the background thread's steps leave alone
ioVars == << pc, conn, backoff, until_next, last, taken, sent_events >>
sharedVars == << presence, presence_updated, is_connected, stopped, message_q,
                 event_q >>

\* The peer sends one of the frames S
PeerSendOf(S, maxFrames) ==
    /\ pipe = "open"
    /\ Len(inbound) < MaxInbound
    /\ frames < maxFrames
    /\ \E f \in S : inbound' = Append(inbound, f)
    /\ frames' = frames + 1
    /\ UNCHANGED << rpcVars, burst, sharedVars, ioVars, pipe, sessions >>

\* The peer closes its end of the transport
PeerClose ==
    /\ pipe = "open"
    /\ pipe' = "closed"
    /\ UNCHANGED << rpcVars, burst, sharedVars, ioVars, inbound, sessions, frames >>

\* Instant::now() advances by one unit
Tick ==
    /\ until_next > 0
    /\ until_next' = until_next - 1
    /\ UNCHANGED << rpcVars, burst, sharedVars, pc, conn, backoff, last, taken,
                    sent_events, transportVars >>

(* ----------------------------- the caller ----------------------------- *)
PresenceValues == {"null", "activity"}

\* Rpc::update_presence without presence_raw.clear()
UpdatePresenceBuffer_noclear(buf, pay) == Append(buf, pay)

\* Rpc::update_presence on the buffer: presence_raw.clear() and
\* serde_json::to_writer of the SetActivity
UpdatePresenceBuffer(buf, pay) == << pay >>

\* Rpc::update_presence, first half: the buffer is rewritten under the lock
\* with the next nonce
UpdatePresenceWrite(maxNonce) ==
    /\ cpc = "idle"
    /\ nonce <= maxNonce
    /\ \E p \in PresenceValues :
         presence' = UpdatePresenceBuffer(presence,
                        Payload("SET_ACTIVITY", nonce, p, conn.is_connected, sessions))
    /\ nonce' = Nonce_next(nonce)
    /\ cpc' = "update_presence"
    /\ UNCHANGED << handlers, modify, ran, burst, presence_updated, is_connected,
                    stopped, message_q, event_q, ioVars, transportVars >>

\* Rpc::update_presence, second half: presence_updated.store(true) and unpark
UpdatePresenceStore ==
    /\ cpc = "update_presence"
    /\ presence_updated' = TRUE
    /\ cpc' = "idle"
    /\ LET pay == presence[Len(presence)] IN
         burst' = [n |-> burst.n + 1,
                   ready |-> /\ burst.ready
                             /\ pay.live
                             /\ conn.is_connected
                             /\ pay.sess = sessions,
                   pay |-> pay]
    /\ UNCHANGED << handlers, nonce, modify, ran, presence, is_connected, stopped,
                    message_q, event_q, ioVars, transportVars >>

\* Rpc::send_message: the channel send (unpark changes no state: park_timeout
\* returns anyway)
send_message(q, m) == Append(q, m)

\* Rpc::reply_to_join_request
ReplyToJoinRequest(maxNonce) ==
    /\ cpc = "idle"
    /\ nonce <= maxNonce
    /\ IF ~is_connected
       THEN UNCHANGED << nonce, message_q >>
       ELSE \E accepted \in BOOLEAN :
              /\ message_q' = send_message(message_q,
                    Payload(IF accepted THEN "SEND_ACTIVITY_JOIN_INVITE"
                            ELSE "CLOSE_ACTIVITY_JOIN_REQUEST",
                            nonce, "u1", conn.is_connected, sessions))
              /\ nonce' = Nonce_next(nonce)
    /\ UNCHANGED << handlers, cpc, modify, ran, burst, presence, presence_updated,
                    is_connected, stopped, event_q, ioVars, transportVars >>

\* A closure f given to modify_handlers: the slots it sets, in order, each
\* to Some (on) or None
Closures ==
    UNION { [1 .. k -> [slot : HandlerNames, on : BOOLEAN]] : k \in 0 .. MaxToggles }

RECURSIVE RunClosure(_, _)
RunClosure(f, h) ==
    IF f = << >> THEN h
    ELSE RunClosure(Tail(f),
                    IF Head(f).on THEN h \cup {Head(f).slot} ELSE h \ {Head(f).slot})

\* The slots a closure sets to Some and later to None again
Undone(f) ==
    { s \in HandlerNames :
        \E i, j \in 1 .. Len(f) :
            /\ i < j
            /\ f[i] = [slot |-> s, on |-> TRUE]
            /\ f[j] = [slot |-> s, on |-> FALSE] }

\* the had_*_handler locals all false
ModifySnapshot_none(h) == {}

\* Rpc::modify_handlers, first half: the three had_*_handler locals are
\* taken, then f runs on the handlers
ModifySnapshot(h) == h \cap Togglable

ModifyBegin(maxNonce) ==
    /\ cpc = "idle"
    /\ nonce <= maxNonce
    /\ \E f \in Closures :
         /\ modify' = [had |-> ModifySnapshot(handlers), before |-> handlers,
                        undone |-> Undone(f), sent |-> << >>, done |-> FALSE]
         /\ handlers' = RunClosure(f, handlers)
    /\ cpc' = "modify_handlers"
    /\ UNCHANGED << nonce, ran, burst, sharedVars, ioVars, transportVars >>

\* The name of the event of a togglable slot
EventName(slot) ==
    CASE slot = "join_game" -> "ACTIVITY_JOIN"
      [] slot = "spectate_game" -> "ACTIVITY_SPECTATE"
      [] slot = "join_request" -> "ACTIVITY_JOIN_REQUEST"

\* the macro with (true, true) taken for (false, true)
ToggleFor_always(slot, prev, new, n) ==
    CASE new -> << Payload("SUBSCRIBE", n, EventName(slot), FALSE, 0) >>
      [] prev /\ ~new -> << Payload("UNSUBSCRIBE", n, EventName(slot), FALSE, 0) >>
      [] OTHER -> << >>

\* The macro toggle_event_subscription! of modify_handlers for one slot: the
\* commands it sends, given the nonce n
ToggleFor(slot, prev, new, n) ==
    CASE ~prev /\ new -> << Payload("SUBSCRIBE", n, EventName(slot), FALSE, 0) >>
      [] prev /\ ~new -> << Payload("UNSUBSCRIBE", n, EventName(slot), FALSE, 0) >>
      [] OTHER -> << >>

\* The nonce after the commands cmds have each taken one from n
RECURSIVE NonceAfter(_, _)
NonceAfter(n, k) == IF k = 0 THEN n ELSE NonceAfter(Nonce_next(n), k - 1)

\* Rpc::modify_handlers, second half: the three toggles, in the order of
\* the source
ModifyToggles(had, h, n) ==
    LET a == ToggleFor("join_game", "join_game" \in had, "join_game" \in h, n)
        b == ToggleFor("spectate_game", "spectate_game" \in had,
                       "spectate_game" \in h, NonceAfter(n, Len(a)))
        c == ToggleFor("join_request", "join_request" \in had,
                       "join_request" \in h, NonceAfter(n, Len(a) + Len(b)))
    IN  a \o b \o c

ModifyEnd ==
    /\ cpc = "modify_handlers"
    /\ LET cmds == ModifyToggles(modify.had, handlers, nonce) IN
         /\ message_q' = message_q \o cmds
         /\ nonce' = NonceAfter(nonce, Len(cmds))
         /\ modify' = [modify EXCEPT !.sent = cmds, !.done = TRUE]
    /\ cpc' = "idle"
    /\ UNCHANGED << handlers, ran, burst, presence, presence_updated, is_connected,
                    stopped, event_q, ioVars, transportVars >>

\* try_iter taking the newest event
Receive_newest(q) == q[Len(q)]

\* The event one pass of event_rx.try_iter() takes from the queue
Receive(q) == Head(q)

\* Rpc::check_events: one pass of `for event in self.event_rx.try_iter()`
\* with the run_cb! of its match, which calls the handler if it is installed
CheckEvents ==
    /\ cpc \in {"idle", "check_events"}
    /\ event_q # << >>
    /\ LET e == Receive(event_q) IN
         /\ event_q' = Tail(event_q)
         /\ ran' = IF HandlerOf(e.ev.kind) \in handlers
                   THEN [slot |-> HandlerOf(e.ev.kind), thread |-> "caller",
                         ev |-> e.ev, seq |-> e.seq]
                   ELSE [NoCallback EXCEPT !.seq = e.seq]
    /\ cpc' = "check_events"
    /\ UNCHANGED << handlers, nonce, modify, burst, presence, presence_updated,
                    is_connected, stopped, message_q, ioVars, transportVars >>

\* Rpc::check_events returns when try_iter finds the queue empty
CheckEventsEnd ==
    /\ cpc = "check_events"
    /\ event_q = << >>
    /\ cpc' = "idle"
    /\ ran' = NoCallback
    /\ UNCHANGED << handlers, nonce, modify, burst, sharedVars, ioVars, transportVars >>

\* impl Drop for Rpc, up to the join
DropStart ==
    /\ cpc = "idle"
    /\ presence_updated' = FALSE
    /\ stopped' = TRUE
    /\ cpc' = "join"
    /\ UNCHANGED << handlers, nonce, modify, ran, burst, presence, is_connected,
                    message_q, event_q, ioVars, transportVars >>

\* the thread detached instead of joined
DropJoin_detached ==
    /\ cpc = "join"
    /\ cpc' = "dropped"
    /\ UNCHANGED << handlers, nonce, modify, ran, burst, sharedVars, ioVars,
                    transportVars >>

\* thread.join() returns once run_io_thread has returned
DropJoin ==
    /\ cpc = "join"
    /\ pc = "done"
    /\ cpc' = "dropped"
    /\ UNCHANGED << handlers, nonce, modify, ran, burst, sharedVars, ioVars,
                    transportVars >>

(* -------------------------- specifications --------------------------- *)
\* The session: the background thread against a peer that sends any frame,
\* under a caller that installs every handler and at some point drops the Rpc.
\* ReconnectionTime::new
ReconnectionBackoff == Backoff_new(MinDelay, MaxDelay)

Init == InitWith({HandlerNames}, {ReconnectionBackoff})

PeerSend == PeerSendOf(PeerFrames, MaxFrames)

Next ==
    \/ IoLoop(MaxSessions)
    \/ PeerSend \/ PeerClose \/ Tick
    \/ DropStart \/ DropJoin

Spec == Init /\ [][Next]_vars

\* The facade's outbound side: the caller updates the presence, replies to
\* join requests and drops the Rpc, against a peer that answers the
\* handshake and may close the transport at any time.
ReadyFrame == Fr("FRAME", FALSE, "DISPATCH", "READY", "user:null")

PeerReady == PeerSendOf({ReadyFrame}, 1)

NextFacade ==
    \/ IoThread(MaxSessions)
    \/ PeerReady \/ PeerClose \/ Tick
    \/ UpdatePresenceWrite(MaxNonce) \/ UpdatePresenceStore
    \/ ReplyToJoinRequest(MaxNonce)
    \/ DropStart \/ DropJoin

SpecFacade == Init /\ [][NextFacade]_vars

\* modify_handlers alone: the caller starts from any handler set and calls
\* modify_handlers with any closure of up to MaxToggles assignments.
InitModify == InitWith(SUBSET HandlerNames, {ReconnectionBackoff})

NextModify == ModifyBegin(MaxModifyNonce) \/ ModifyEnd

SpecModify == InitModify /\ [][NextModify]_vars

\* The facade's inbound side: the caller polls, with any of the handlers for
\* them installed, the events of a peer that answers the handshake and sends
\* ERROR and ACTIVITY_JOIN events.
EventSlots == {"connect", "disconnect", "error", "join_game"}

InitEvents == InitWith(SUBSET EventSlots, {ReconnectionBackoff})

EventFrames ==
    { ReadyFrame,
      Fr("FRAME", FALSE, "DISPATCH", "ERROR", "err:bye:1"),
      Fr("FRAME", FALSE, "DISPATCH", "ACTIVITY_JOIN", "secret:s1") }

PeerEvent == PeerSendOf(EventFrames, MaxFrames)

NextEvents ==
    \/ IoLoop(MaxSessions)
    \/ PeerEvent \/ PeerClose \/ Tick
    \/ CheckEvents \/ CheckEventsEnd

SpecEvents == InitEvents /\ [][NextEvents]_vars

\* The Backoff alone: any Backoff::new(min, max) with min <= max, then any
\* sequence of next() and reset(); until_next holds the delay the last next()
\* returned (ReconnectionTime::calc_next with the clock stopped), last.result
\* the call before the last one.
Backoffs ==
    { Backoff_new(min, max) : min \in 0 .. MaxBackoff, max \in 0 .. MaxBackoff }

InitBackoff ==
    InitWith({HandlerNames}, { b \in Backoffs : b.min <= b.max })

calc_next ==
    /\ \E inc \in Increments(backoff) :
         /\ backoff' = Backoff_next(backoff, inc)
         /\ until_next' = backoff'.current_delay
    /\ last' = Called("next", last.call, NoError, 1, 0, 0, 0, << >>)
    /\ UNCHANGED << rpcVars, burst, taken, sharedVars, pc, conn, sent_events,
                    transportVars >>

reset ==
    /\ backoff' = Backoff_reset(backoff)
    /\ last' = Called("reset", last.call, NoError, 0, 1, 0, 0, << >>)
    /\ UNCHANGED << rpcVars, burst, taken, sharedVars, pc, conn, until_next,
                    sent_events, transportVars >>

NextBackoff == calc_next \/ reset

SpecBackoff == InitBackoff /\ [][NextBackoff]_vars

\* The nonce counter: a facade that is new (nonce 1) or has issued commands
\* up to just below the wrap of the i32 (its history variables start
\* afresh), with the shared connected flag in either state, issues commands
\* of every kind; the background thread is left out, so message_q keeps every
\* command sent.
NonceStarts == {1, I32_MAX - 1}

RECURSIVE NonceWindow(_, _)
NonceWindow(n, k) ==
    IF k = 0 THEN {} ELSE {n} \cup NonceWindow(Nonce_next(n), k - 1)

NonceWindows == UNION { NonceWindow(n, MaxWindow) : n \in NonceStarts }

InitNonce ==
    /\ handlers = {}
    /\ nonce \in NonceStarts
    /\ cpc = "idle"
    /\ presence = << >>
    /\ presence_updated = FALSE
    /\ is_connected \in BOOLEAN
    /\ stopped = FALSE
    /\ message_q = << >>
    /\ event_q = << >>
    /\ pc = "loop"
    /\ conn = Connection_new
    /\ backoff = ReconnectionBackoff
    /\ until_next = 0
    /\ pipe = "none"
    /\ inbound = << >>
    /\ sessions = 0
    /\ frames = 0
    /\ last = Quiet
    /\ burst = NoBurst
    /\ taken = NoBurst
    /\ modify = NoModify
    /\ ran = NoCallback
    /\ sent_events = 0

NonceUpdatePresence == nonce \in NonceWindows /\ UpdatePresenceWrite(I32_MAX)
NonceReply == nonce \in NonceWindows /\ ReplyToJoinRequest(I32_MAX)
NonceModify == nonce \in NonceWindows /\ ModifyBegin(I32_MAX)

NextNonce ==
    \/ NonceUpdatePresence \/ UpdatePresenceStore
    \/ NonceReply
    \/ NonceModify \/ ModifyEnd

SpecNonce == InitNonce /\ [][NextNonce]_vars

\* The Connection as a component: write_raw is a public method, callable in
\* whatever state open() has left the Connection in. run_io_thread itself
\* calls it only in the connected branch of an iteration (PresenceWrite,
\* Messages); here it is also called right after an open() has returned.
WriteRawCall ==
    /\ pc = "publish"
    /\ last.call = "open"
    /\ \E ok \in WriteOutcomes(pipe) :
         last' = Called("write_raw", write_raw_result(conn, ok), NoError, 0, 0, 0, 0,
                        write_raw(conn, ok, << Payload("SET_ACTIVITY", nonce, "activity",
                                                       conn.is_connected, sessions) >>))
    /\ UNCHANGED << callerVars, sharedVars, pc, conn, backoff, until_next, sent_events,
                    transportVars >>

NextConnection ==
    \/ IoLoop(MaxSessions)
    \/ PeerSend \/ PeerClose \/ Tick
    \/ WriteRawCall

SpecConnection == Init /\ [][NextConnection]_vars

\* The facade's outbound side with a background thread that keeps being
\* scheduled: park_timeout returns after MAX_IO_THREAD_TIMEOUT at the latest,
\* whether or not an unpark reached it.
FairFacade == SpecFacade /\ WF_vars(IoThread(MaxSessions))

(* ------------------------------ claims -------------------------------- *)

\* The background thread is scheduled as long as it has a step to take.
FairSpec == Spec /\ WF_vars(IoLoop(MaxSessions))

IsJoinReply(m) == m.cmd \in {"SEND_ACTIVITY_JOIN_INVITE", "CLOSE_ACTIVITY_JOIN_REQUEST"}
Bye == [message |-> "bye", code |-> 1]

\* the step that ends the background thread's write of the presence
PresenceWriteStep == pc = "presence_write" /\ pc' = "messages"
\* the step that tests and clears presence_updated
PresenceTestStep == pc = "presence" /\ pc' # "presence"

C2_NoLateJoinReply ==
    \A i \in 1 .. Len(last.wrote) :
        \A j \in 1 .. Len(last.wrote[i].body) :
            LET m == last.wrote[i].body[j] IN
                ~(IsJoinReply(m) /\ ~m.live /\ m.sess < sessions)

\* C3: every read fault, write fault and CLOSE frame leaves the Connection
\* Disconnected, with no transport, and invokes the disconnect notification.
C3_FaultsDisconnect ==
    (\/ last.result \in {"Io", "Stream", "HandshakeSend"}
     \/ last.call = "open" /\ last.result = "HandshakeReceive" /\ last.err # NoError)
        => /\ ~conn.transport
           /\ ~conn.is_connected
           /\ last.disconnects = 1

\* a parseable handshake reply
IsReply(f) == f.op = "FRAME" /\ ~f.short /\ ParsesAsHandshakeReply(f)
\* open() returns from the read of the frame at the head of the transport
OpenReadStep == pc = "open" /\ pc' # "open" /\ conn.transport /\ inbound # << >>

\* C4: a handshake reply whose cmd is not "DISPATCH" or whose evt is not
\* "READY" leaves the Connection not Ready, invokes no connect notification
\* and makes open() return InvalidHandshake.
C4_InvalidHandshake ==
    [][ (/\ OpenReadStep
         /\ IsReply(Head(inbound))
         /\ (Head(inbound).cmd # "DISPATCH" \/ Head(inbound).evt # "READY"))
            => /\ ~conn'.is_connected
               /\ last'.connects = 0
               /\ event_q' = event_q
               /\ last'.result = "InvalidHandshake" ]_vars

C4_Witness ==
    /\ last.call = "open"
    /\ last.result = "InvalidHandshake"
    /\ conn.transport
    /\ ~conn.is_connected
    /\ pc = "publish"

\* C5: a CLOSE frame with a parseable error read by a Ready session queues a
\* Disconnected event with exactly that message and code, calls the backoff's
\* next() exactly once and leaves the Connection Disconnected.
C5_CloseFrame ==
    [][ (/\ pc = "drain"
         /\ conn.is_connected
         /\ inbound # << >>
         /\ Len(inbound') < Len(inbound)
         /\ Head(inbound).op = "CLOSE"
         /\ Head(inbound).data = "err:bye:1")
            => /\ event_q' = Append(event_q, [ev |-> Disconnected(Bye),
                                              seq |-> sent_events + 1])
               /\ last'.disconnects = 1
               /\ last'.nexts = 1
               /\ backoff' \in { Backoff_next(backoff, inc) : inc \in Increments(backoff) }
               /\ until_next' = backoff'.current_delay
               /\ ~conn'.transport
               /\ ~conn'.is_connected
               /\ pipe' = "none" ]_vars

C5_Witness ==
    /\ last.call = "read_json"
    /\ last.err = Bye
    /\ last.nexts = 1
    /\ ~conn.transport
    /\ event_q # << >>
    /\ event_q[Len(event_q)].ev = Disconnected(Bye)

\* C6: a DISPATCH/READY reply read by open() while the handshake reply is
\* awaited makes the Connection Ready, queues exactly one Connected event with
\* the reply's user and leaves the backoff's current delay at the minimum.
C6_Ready ==
    [][ (/\ OpenReadStep
         /\ ~conn.is_connected
         /\ IsReply(Head(inbound))
         /\ Head(inbound).cmd = "DISPATCH"
         /\ Head(inbound).evt = "READY")
            => /\ conn'.is_connected
               /\ conn'.transport
               /\ event_q' = Append(event_q,
                     [ev |-> Connected(IF Head(inbound).data = "user:u1"
                                       THEN "u1" ELSE NoUser),
                      seq |-> sent_events + 1])
               /\ last'.connects = 1
               /\ backoff'.current_delay = backoff.min ]_vars

\* the Connection has just become Ready, after the loop had advanced the
\* backoff beyond the minimum before the open()
C6_Witness ==
    /\ last.call = "open"
    /\ last.connects = 1
    /\ conn.is_connected
    /\ backoff.current_delay = MinDelay
    /\ until_next > MinDelay
    /\ event_q[Len(event_q)].ev = Connected("u1")

\* C7: stopped is set only by the drop of the Rpc and never cleared; once it
\* is set the background thread leaves its loop; the drop returns only after
\* the thread has terminated and released its transport.
C7_Shutdown ==
    /\ [][ /\ (stopped => stopped')
           /\ (~stopped /\ stopped' => cpc = "idle" /\ cpc' = "join") ]_vars
    /\ [](cpc = "dropped" => pc = "done" /\ ~conn.transport /\ pipe = "none")
    /\ (stopped ~> pc = "done")

\* the drop has returned and the thread released a transport as it ended
C7_Witness ==
    /\ cpc = "dropped"
    /\ pc = "done"
    /\ last.call = "exit"
    /\ last.result = "released"

\* The commands of cmds that toggle the subscription of slot s
RECURSIVE Count(_, _, _)
Count(cmds, cmd, s) ==
    IF cmds = << >> THEN 0
    ELSE (IF Head(cmds).cmd = cmd /\ Head(cmds).arg = EventName(s) THEN 1 ELSE 0)
         + Count(Tail(cmds), cmd, s)

\* C8: one call modify_handlers(f) enqueues, for each togglable slot, one
\* SUBSCRIBE if the handler was absent before f and is installed after it, one
\* UNSUBSCRIBE if it was installed before and is absent after, and nothing
\* otherwise; a handler installed and removed inside f produces no command,
\* and the connect, disconnect and error slots never produce one.
C8_SubscriptionDiff ==
    modify.done =>
        /\ Len(message_q) >= Len(modify.sent)
        /\ SubSeq(message_q, Len(message_q) - Len(modify.sent) + 1, Len(message_q))
               = modify.sent
        /\ \A s \in Togglable :
              /\ Count(modify.sent, "SUBSCRIBE", s)
                   = IF s \notin modify.before /\ s \in handlers THEN 1 ELSE 0
              /\ Count(modify.sent, "UNSUBSCRIBE", s)
                   = IF s \in modify.before /\ s \notin handlers THEN 1 ELSE 0
              /\ (s \in modify.undone /\ s \notin modify.before /\ s \notin handlers)
                   => \A i \in 1 .. Len(modify.sent) : modify.sent[i].arg # EventName(s)
        /\ \A i \in 1 .. Len(modify.sent) :
              /\ modify.sent[i].cmd \in {"SUBSCRIBE", "UNSUBSCRIBE"}
              /\ modify.sent[i].arg \in { EventName(s) : s \in Togglable }

\* a call whose closure installed and removed one absent togglable handler and
\* removed nothing else has returned, having sent nothing
C8_Witness ==
    /\ modify.done
    /\ cpc = "idle"
    /\ modify.undone \cap Togglable # {}
    /\ modify.undone \cap modify.before = {}
    /\ modify.sent = << >>
    /\ \E i \in 1 .. Len(message_q) : message_q[i].cmd = "UNSUBSCRIBE"

\* C9: handler callbacks run only inside check_events(), on the caller's
\* thread, and check_events() delivers the queued events to their handlers in
\* the order the background thread queued them: the k-th event it takes is
\* the k-th event sent.
C9_CallbackOrder ==
    [][ /\ (ran' # ran) => (cpc' = "check_events" \/ cpc = "check_events")
        /\ ran'.thread \in {"", "caller"}
        /\ (pc' # pc \/ last' # last \/ sent_events' # sent_events) => ran' = ran
        /\ (cpc' = "check_events" /\ Len(event_q') < Len(event_q)) =>
              /\ ran'.seq = sent_events - Len(event_q) + 1
              /\ \E i \in 1 .. Len(event_q) :
                    /\ event_q[i].seq = ran'.seq
                    /\ IF HandlerOf(event_q[i].ev.kind) \in handlers
                       THEN /\ ran'.slot = HandlerOf(event_q[i].ev.kind)
                            /\ ran'.ev = event_q[i].ev
                            /\ ran'.thread = "caller"
                       ELSE ran'.slot = ""
      ]_vars

\* the second event sent has been delivered to its handler while a third
\* waits in the queue
C9_Witness ==
    /\ cpc = "check_events"
    /\ ran.slot # ""
    /\ ran.seq = 2
    /\ event_q # << >>
    /\ event_q[1].seq = 3

\* C10: on a Backoff built with min <= max, after any sequence of next() and
\* reset() every delay next() returns lies in [min, max]; in particular the
\* first next() after a reset() returns at least min.
C10_BackoffBounds ==
    last.call = "next" =>
        /\ backoff.min <= until_next
        /\ until_next <= backoff.max
        /\ until_next = backoff.current_delay

\* a next() right after a reset() that returned more than min, on a Backoff
\* whose max it did not reach
C10_Witness ==
    /\ last.call = "next"
    /\ last.result = "reset"
    /\ backoff.min < until_next
    /\ until_next < backoff.max

\* a pass of the drain reads the frame at the head of the transport
DrainReadStep ==
    /\ pc = "drain"
    /\ conn.is_connected
    /\ inbound # << >>
    /\ Len(inbound') < Len(inbound)

\* C11: a PING frame read by a Ready session makes read_json write one PONG
\* frame and nothing else; when that write succeeds no event is queued for
\* the facade, the Connection stays Ready and the drain goes on; when it
\* fails no frame is written and the only event queued is the Disconnected
\* of the teardown.
C11_PingPong ==
    [][ (DrainReadStep /\ Head(inbound).op = "PING" /\ ~Head(inbound).short)
            => /\ last'.call = "read_json"
               /\ last'.result \in {"Continue", "Io"}
               /\ last'.result = "Continue" =>
                     /\ last'.wrote = << WireFrame("PONG", << >>) >>
                     /\ event_q' = event_q
                     /\ sent_events' = sent_events
                     /\ conn' = conn
                     /\ conn'.is_connected
                     /\ pipe' = pipe
                     /\ inbound' = Tail(inbound)
                     /\ pc' = "drain"
               /\ last'.result = "Io" =>
                     /\ last'.wrote = << >>
                     /\ event_q' = Append(event_q, [ev |-> Disconnected(NoError),
                                                      seq |-> sent_events + 1])
      ]_vars

\* the drain has just answered a PING and the session is still Ready
C11_Witness ==
    /\ pc = "drain"
    /\ last.call = "read_json"
    /\ last.result = "Continue"
    /\ last.wrote = << WireFrame("PONG", << >>) >>
    /\ conn.is_connected
    /\ pipe = "open"

\* read_json returns to its caller (the drain or open()) from a transport
\* the Connection holds
ReadReturns ==
    \/ pc = "drain" /\ pc' = "presence"
    \/ pc = "open" /\ pc' = "publish" /\ conn.transport

\* C12: a header read that yields would-block makes read_json return "no
\* data available" and changes nothing of the Connection, the transport, the
\* backoff or the event queue and invokes no notification; a header followed
\* by a short or failed payload read closes the Connection, with one
\* disconnect notification carrying "Partial data in frame", code ReadCorrupt.
C12_FrameFaults ==
    [][ /\ (ReadReturns /\ inbound = << >> /\ pipe = "open")
              => /\ last'.result = (IF pc = "drain" THEN "None" ELSE "Ok")
                 /\ conn' = conn
                 /\ pipe' = pipe
                 /\ inbound' = inbound
                 /\ event_q' = event_q
                 /\ backoff' = backoff
                 /\ until_next' = until_next
                 /\ last'.connects = 0
                 /\ last'.disconnects = 0
                 /\ last'.wrote = << >>
        /\ (ReadReturns /\ inbound # << >> /\ Head(inbound).short)
              => /\ last'.result = (IF pc = "drain" THEN "Stream" ELSE "HandshakeReceive")
                 /\ last'.err = [message |-> "Partial data in frame", code |-> 2]
                 /\ ~conn'.transport
                 /\ ~conn'.is_connected
                 /\ pipe' = "none"
                 /\ last'.disconnects = 1
                 /\ event_q' = Append(event_q, [ev |-> Disconnected(last'.err),
                                                  seq |-> sent_events + 1])
      ]_vars

\* a Ready session has just been closed by a short payload
C12_Witness ==
    /\ last.call = "read_json"
    /\ last.result = "Stream"
    /\ last.err.code = READ_CORRUPT
    /\ last.err.message = "Partial data in frame"
    /\ ~conn.transport
    /\ pc = "presence"

\* the last step wrote a FRAME holding the command with nonce n
WroteCommand(n) ==
    \E i \in 1 .. Len(last.wrote) :
        /\ last.wrote[i].op = "FRAME"
        /\ \E j \in 1 .. Len(last.wrote[i].body) : last.wrote[i].body[j].nonce = n

\* the last step wrote a FRAME holding a presence submitted no earlier than
\* the one with nonce n
WrotePresence(n) ==
    \E i \in 1 .. Len(last.wrote) :
        /\ last.wrote[i].op = "FRAME"
        /\ \E j \in 1 .. Len(last.wrote[i].body) :
              /\ last.wrote[i].body[j].cmd = "SET_ACTIVITY"
              /\ last.wrote[i].body[j].nonce >= n

\* C13: while the Connection is Ready, every command in the message queue
\* and the latest presence submitted are eventually written to the transport,
\* unless the Connection stops being Ready first.
C13_ForwardProgress ==
    \A n \in 1 .. MaxNonce :
        /\ (conn.is_connected /\ \E i \in 1 .. Len(message_q) : message_q[i].nonce = n)
              ~> (~conn.is_connected \/ WroteCommand(n))
        /\ (/\ conn.is_connected
            /\ presence_updated
            /\ presence # << >>
            /\ presence[Len(presence)].nonce = n)
              ~> (~conn.is_connected \/ WrotePresence(n))

\* y is the i32 that follows x, modulo 2^32
Follows(x, y) == IF x = 2147483647 THEN y = -2147483647 - 1 ELSE y = x + 1

\* the commands a step of the caller generates: the presence it writes into
\* the buffer and the commands it sends to the message queue
Generated ==
    (IF presence' # presence THEN << presence'[Len(presence')] >> ELSE << >>)
        \o SubSeq(message_q', Len(message_q) + 1, Len(message_q'))

\* every command generated so far that the state still holds
Issued == message_q \o presence

\* C14: every command a facade generates, of whatever kind, carries the
\* value of the one counter at that time and moves the counter to the i32
\* that follows (the smallest i32 after the largest), so successive commands
\* carry consecutive nonces modulo 2^32, and no two commands generated within
\* the run share a nonce.
C14_NonceAllocation ==
    /\ [][ LET new == Generated IN
             /\ Len(new) = 0 => nonce' = nonce
             /\ Len(new) > 0 =>
                   /\ new[1].nonce = nonce
                   /\ \A k \in 2 .. Len(new) : Follows(new[k - 1].nonce, new[k].nonce)
                   /\ Follows(new[Len(new)].nonce, nonce')
          ]_vars
    /\ [](\A i, j \in 1 .. Len(Issued) : i # j => Issued[i].nonce # Issued[j].nonce)

\* commands of three kinds were generated across the wrap of the counter
C14_Witness ==
    /\ presence # << >>
    /\ presence[1].nonce = I32_MAX - 1
    /\ Len(message_q) >= 2
    /\ message_q[1].nonce = I32_MAX
    /\ message_q[1].cmd = "SEND_ACTIVITY_JOIN_INVITE"
    /\ message_q[2].nonce = -I32_MAX - 1
    /\ message_q[2].cmd = "SUBSCRIBE"
    /\ nonce = -I32_MAX

\* the frame at the head of the transport, or the lack of one, is fatal to
\* read_json whatever the writes do
FatalRead ==
    \/ inbound = << >> /\ pipe = "closed"
    \/ /\ inbound # << >>
       /\ \/ Head(inbound).short
          \/ Head(inbound).op \notin {"FRAME", "PING", "PONG"}

\* the error close_with_error is given on that path (NoError: none)
TriggeringError ==
    IF inbound = << >> THEN [message |-> "Pipe closed", code |-> 1]
    ELSE IF Head(inbound).short THEN [message |-> "Partial data in frame", code |-> 2]
    ELSE IF Head(inbound).op = "CLOSE"
         THEN (IF Head(inbound).data = "err:bye:1" THEN Bye ELSE NoError)
    ELSE IF Head(inbound).op = "PING" THEN NoError
    ELSE [message |-> "Bad frame", code |-> 2]

\* C15: on every fatal path of read_json (header read fault, payload read
\* fault, CLOSE frame, unrecognized opcode, failed PONG write) the state in
\* which the disconnect notification has run has the transport dropped and
\* the Connection Disconnected, and the notification ran exactly once, with
\* the triggering error (none for a failed PONG write or a CLOSE frame
\* without a parseable error); no other step of the thread invokes it.
C15_Teardown ==
    [][ /\ (/\ pc \in {"drain", "open"}
            /\ conn.transport
            /\ pc' \notin {pc, "done"}
            /\ \/ FatalRead
               \/ inbound # << >> /\ Head(inbound).op = "PING")
              => /\ ~conn'.transport
                 /\ ~conn'.is_connected
                 /\ pipe' = "none"
                 /\ last'.disconnects = 1
                 /\ last'.err = TriggeringError
                 /\ sent_events' = sent_events + 1
                 /\ event_q' = Append(event_q, [ev |-> Disconnected(TriggeringError),
                                                  seq |-> sent_events + 1])
        /\ last'.disconnects \in {0, 1}
        /\ (last'.disconnects = 1 /\ last' # last)
              => (pc \in {"drain", "open"} /\ conn.transport /\ ~conn'.transport)
      ]_vars

\* a Ready session has just been torn down by a failed PONG write
C15_Witness ==
    /\ last.call = "read_json"
    /\ last.result = "Io"
    /\ last.disconnects = 1
    /\ last.err = NoError
    /\ ~conn.transport
    /\ ~conn.is_connected
    /\ event_q # << >>
    /\ event_q[Len(event_q)].ev = Disconnected(NoError)

\* C16: the drain of an iteration stops only when read_json reports "no
\* data available" or has closed the Connection.
C16_DrainUntilNoData ==
    [][ (pc = "drain" /\ pc' = "presence")
            => (last'.result = "None" \/ ~conn'.is_connected) ]_vars

\* the frames of the last step that hold a command of the message queue
CommandFrames(l) ==
    { i \in 1 .. Len(l.wrote) :
        /\ l.wrote[i].op = "FRAME"
        /\ \E j \in 1 .. Len(l.wrote[i].body) : IsJoinReply(l.wrote[i].body[j]) }

\* C17: the message queue grows at its tail only, in the order of the
\* facade's calls (the order of the nonces); the only step that writes a
\* command takes the head of the queue off it and writes at most one frame,
\* holding exactly that command, which was enqueued before every command
\* still queued and before every command enqueued later: the commands reach
\* the transport in the order they were enqueued, each at most once.
C17_OutboundOrder ==
    /\ [][ /\ (message_q' # message_q) =>
                 \/ /\ Len(message_q') = Len(message_q) + 1
                    /\ SubSeq(message_q', 1, Len(message_q)) = message_q
                    /\ message_q'[Len(message_q')].nonce = nonce
                    /\ nonce' > nonce
                    /\ last' = last
                 \/ /\ pc = "messages"
                    /\ message_q # << >>
                    /\ message_q' = Tail(message_q)
                    /\ last'.call = "write_raw"
                    /\ last'.wrote \in { << >>, << WireFrame("FRAME", << Head(message_q) >>) >> }
                    /\ \A i \in 1 .. Len(message_q') :
                          Head(message_q).nonce < message_q'[i].nonce
                    /\ Head(message_q).nonce < nonce'
           /\ (last' # last /\ CommandFrames(last') # {}) =>
                 /\ pc = "messages"
                 /\ message_q # << >>
                 /\ message_q' = Tail(message_q)
                 /\ last'.wrote = << WireFrame("FRAME", << Head(message_q) >>) >>
         ]_vars
    /\ [](\A i, j \in 1 .. Len(message_q) :
              i < j => message_q[i].nonce < message_q[j].nonce)

\* the second of three queued commands has just been written, after the
\* first and before the third
C17_Witness ==
    /\ pc = "messages"
    /\ last.call = "write_raw"
    /\ last.result = "Ok"
    /\ Len(last.wrote) = 1
    /\ IsJoinReply(last.wrote[1].body[1])
    /\ last.wrote[1].body[1].nonce = 2
    /\ message_q # << >>
    /\ message_q[1].nonce = 3

\* C18: the session loop enters open() only from the head of an iteration
\* that found the Connection not connected and the time at or past next_time,
\* and only after advancing the backoff once, which sets next_time to now
\* plus the new delay; the open() of an iteration returns to the end of the
\* iteration, so there is one at most per iteration; next_time moves only
\* when the backoff is advanced (never back to now), so no open() happens
\* before the delay last computed has elapsed.
C18_ReconnectPacing ==
    [][ /\ (pc' = "open" /\ pc # "open") =>
              /\ pc = "loop"
              /\ ~stopped
              /\ ~conn.is_connected
              /\ until_next = 0
              /\ \E inc \in Increments(backoff) : backoff' = Backoff_next(backoff, inc)
              /\ until_next' = backoff'.current_delay
              /\ until_next' >= backoff.min
        /\ (pc = "loop" /\ pc' # "loop" /\ ~stopped /\ ~conn.is_connected
                /\ until_next > 0) =>
              /\ pc' = "publish"
              /\ last'.call = "none"
              /\ backoff' = backoff
              /\ until_next' = until_next
        /\ (last' # last /\ last'.call = "open") =>
              /\ pc = "open"
              /\ pc' = (IF last'.result = "Continue" THEN "open" ELSE "publish")
        /\ (pc = "open" /\ pc' # "open") => pc' = "publish"
        /\ (until_next' # until_next) =>
              \/ until_next' = until_next - 1 /\ backoff' = backoff /\ pc' = pc
              \/ /\ until_next' = backoff'.current_delay
                 /\ \E inc \in Increments(backoff) : backoff' = Backoff_next(backoff, inc)
      ]_vars

\* a second attempt has begun after a disconnect, once the delay computed
\* at the disconnect had elapsed
C18_Witness ==
    /\ pc = "open"
    /\ sessions = 1
    /\ ~conn.transport
    /\ event_q # << >>
    /\ event_q[Len(event_q)].ev.kind = "Disconnected"
    /\ backoff.current_delay > MinDelay

\* C19: a write_raw on a Connection that is not connected returns
\* Disconnected and writes nothing; a FRAME is written by write_raw only on a
\* connected Connection.
C19_WriteRawNeedsReady ==
    (last.call = "write_raw" /\ ~conn.is_connected)
        => (last.result = "Disconnected" /\ last.wrote = << >>)

\* the results with which a call on the Connection reports a fault
FaultResults ==
    {"Stream", "Io", "Json", "InvalidHandshake", "HandshakeReceive", "HandshakeSend"}

\* C20: after a call on the Connection has reported a fault of any kind the
\* background thread is still in its loop and the Connection is Disconnected:
\* it holds no transport and is not connected, so that the next iterations
\* run the backoff and open a fresh transport.
C20_FaultsFallBack ==
    (last.call \in {"open", "read_json", "write_raw"} /\ last.result \in FaultResults)
        => /\ pc # "done"
           /\ ~conn.transport
           /\ ~conn.is_connected

\* a step that takes a command from the queue
MessageStep == Len(message_q') < Len(message_q)

\* C21: a presence write or command write that fails is dropped, never
\* retried. The background thread writes the buffer only when its test found
\* presence_updated set, which takes an update_presence call completed since
\* the previous test, whether the earlier write succeeded, failed or found
\* the transport closed by the drain of the same iteration; a failed write
\* writes nothing and leaves the flag clear. A command taken from the queue is
\* removed whatever its write returns, and the queue only ever loses its head
\* or gains a command with a fresh nonce at its tail.
C21_FailedWritesDropped ==
    [][ /\ \A i \in 1 .. Len(message_q) : message_q[i].nonce < nonce
        /\ (PresenceTestStep /\ burst.n = 0) => pc' = "messages"
        /\ PresenceWriteStep =>
              /\ taken.n >= 1
              /\ presence_updated' = presence_updated
              /\ (last'.result # "Ok" => last'.wrote = << >>)
        /\ MessageStep =>
              /\ pc = "messages"
              /\ message_q' = Tail(message_q)
              /\ last'.call = "write_raw"
              /\ last'.wrote = IF last'.result = "Ok"
                               THEN << WireFrame("FRAME", << Head(message_q) >>) >>
                               ELSE << >>
        /\ (message_q' # message_q) =>
              \/ MessageStep
              \/ /\ Len(message_q') = Len(message_q) + 1
                 /\ SubSeq(message_q', 1, Len(message_q)) = message_q
                 /\ message_q'[Len(message_q')].nonce = nonce
                 /\ nonce' = Nonce_next(nonce)
      ]_vars

\* the drain closed the Connection, the test cleared the flag of a completed
\* update_presence, the write found no transport and wrote nothing, and the
\* flag is still clear afterwards
C21_Witness ==
    /\ pc = "messages"
    /\ last.call = "write_raw"
    /\ last.result = "Disconnected"
    /\ last.wrote = << >>
    /\ taken.n >= 1
    /\ ~conn.transport
    /\ ~presence_updated
    /\ cpc = "idle"
    /\ burst.n = 0

\* C22: the Connection takes a transport only in the step that writes the
\* HANDSHAKE frame on it, as the only frame of that step, and leaves it not
\* connected; no later step writes a HANDSHAKE frame on a transport the
\* Connection holds, so each transport carries the HANDSHAKE once, before any
\* other frame. A transport whose HANDSHAKE write fails is discarded with no
\* frame written on it. The Connection becomes connected only when open has
\* validated the reply, and a frame of opcode FRAME (a presence or a command)
\* is written only on a transport whose Connection is connected.
C22_HandshakeFirst ==
    [][ /\ (conn'.transport /\ ~conn.transport) =>
              /\ sessions' = sessions + 1
              /\ last'.call = "open"
              /\ last'.wrote = << WireFrame("HANDSHAKE", << HandshakePayload >>) >>
              /\ ~conn'.is_connected
        /\ (sessions' # sessions) => (~conn.transport /\ conn'.transport)
        /\ (last'.call = "open" /\ last'.result = "HandshakeSend") =>
              (last'.wrote = << >> /\ ~conn'.transport)
        /\ (conn'.is_connected /\ ~conn.is_connected) =>
              /\ conn.transport
              /\ sessions' = sessions
              /\ last'.call = "open"
              /\ last'.result = "Ok"
              /\ inbound # << >>
              /\ ValidHandshake(Head(inbound))
        /\ (last' # last \/ pc' # pc) =>
              \A i \in 1 .. Len(last'.wrote) :
                  LET f == last'.wrote[i] IN
                      /\ f.op = "HANDSHAKE" => (~conn.transport /\ conn'.transport)
                      /\ f.op # "HANDSHAKE" => (conn.transport /\ sessions' = sessions)
                      /\ f.op = "FRAME" =>
                            /\ last'.call = "write_raw"
                            /\ conn.is_connected
                            /\ conn' = conn
      ]_vars

\* a command and an updated presence are pending while the Connection holds
\* a second transport whose handshake reply has not arrived: the iteration
\* only called open, which wrote nothing
C22_Witness ==
    /\ pc = "publish"
    /\ sessions = 2
    /\ conn.transport
    /\ ~conn.is_connected
    /\ last.call = "open"
    /\ last.wrote = << >>
    /\ presence_updated
    /\ message_q # << >>

\* the payload of the latest update_presence call whose write of the buffer
\* has finished: the call in progress, which has released the lock and not yet
\* stored the flag, else the last call completed since the test of
\* presence_updated, else the last call completed before it
LatestPresence ==
    IF cpc = "update_presence"
    THEN CHOOSE p \in { presence[i] : i \in 1 .. Len(presence) } :
             Nonce_next(p.nonce) = nonce
    ELSE IF burst.n >= 1 THEN burst.pay ELSE taken.pay

\* C23: whenever the background thread writes the presence, under any
\* interleaving with update_presence, the buffer it has locked holds exactly
\* one complete SET_ACTIVITY payload, that of the latest update_presence call
\* whose write of the buffer had finished by then; it is never the empty
\* buffer of Rpc::new nor more or less than one payload, and the frame
\* written, if the write succeeds, carries that payload and nothing else.
C23_PresenceSnapshot ==
    [][ PresenceWriteStep =>
          /\ taken.n >= 1
          /\ Len(presence) = 1
          /\ presence[1].cmd = "SET_ACTIVITY"
          /\ presence[1].arg \in PresenceValues
          /\ (cpc = "update_presence" => Nonce_next(presence[1].nonce) = nonce)
          /\ presence[1] = LatestPresence
          /\ presence[1].nonce >= taken.pay.nonce
          /\ last'.wrote = IF last'.result = "Ok"
                           THEN << WireFrame("FRAME", << LatestPresence >>) >>
                           ELSE << >>
      ]_vars

\* an update_presence call rewrote the buffer between the test of
\* presence_updated, which found the flag of an earlier call, and the write:
\* the frame written carries the later call's payload
C23_Witness ==
    /\ pc = "messages"
    /\ cpc = "update_presence"
    /\ taken.n = 1
    /\ last.call = "write_raw"
    /\ last.result = "Ok"
    /\ Len(last.wrote) = 1
    /\ last.wrote[1].body = presence
    /\ presence[1].nonce > taken.pay.nonce

\* the kind of the i-th event sent to the facade
KindAt(i) == event_q[i].ev.kind

\* the positions in event_q of the Connected and Disconnected events
SessionEvents == { i \in 1 .. Len(event_q) : KindAt(i) \in {"Connected", "Disconnected"} }

\* C24: in the sequence of events sent to the facade (none has been
\* received: the queue is the whole sequence) there is a Disconnected event
\* between any two Connected events, and as long as run_io_thread has not
\* returned the Connection is connected exactly when the last Connected or
\* Disconnected event of the sequence is a Connected one.
C24_ConnectedAlternates ==
    /\ Len(event_q) = sent_events
    /\ \A i \in 1 .. Len(event_q) : event_q[i].seq = i
    /\ \A i, j \in 1 .. Len(event_q) :
          (i < j /\ KindAt(i) = "Connected" /\ KindAt(j) = "Connected")
              => \E k \in (i + 1) .. (j - 1) : KindAt(k) = "Disconnected"
    /\ pc # "done" =>
        conn.is_connected =
          (\E i \in SessionEvents :
               /\ KindAt(i) = "Connected"
               /\ \A k \in SessionEvents : k <= i)

\* a Disconnected event is the first event of the sequence: the fault came
\* before any handshake reply was validated
DisconnectedFirst == event_q # << >> /\ KindAt(1) = "Disconnected"

\* two sessions became Ready, with the teardown of the first in between
C24_Witness ==
    \E i, j, k \in 1 .. Len(event_q) :
        /\ i < k /\ k < j
        /\ KindAt(i) = "Connected"
        /\ KindAt(k) = "Disconnected"
        /\ KindAt(j) = "Connected"
        /\ conn.is_connected

\* SUBSCRIBE commands minus UNSUBSCRIBE commands for slot s among cmds
Net(cmds, s) == Count(cmds, "SUBSCRIBE", s) - Count(cmds, "UNSUBSCRIBE", s)

\* the positions in the queue of the commands that toggle slot s
TogglesOf(s) == { i \in 1 .. Len(message_q) : message_q[i].arg = EventName(s) }

\* C25: whatever set H of togglable handlers was given to Rpc::new, which
\* enqueues nothing, after any sequence of modify_handlers calls the commands
\* enqueued (none is taken from the queue here, so the queue holds them all)
\* satisfy, for each togglable slot: SUBSCRIBEs minus UNSUBSCRIBEs equals
\* (1 if the handler is installed now, else 0) minus (1 if it was in H, else
\* 0); and the first command for a slot of H, if there is one, is an
\* UNSUBSCRIBE: a handler given at construction is never subscribed.
C25_NetSubscriptions ==
    \A H \in SUBSET Togglable :
        (handlers \cap Togglable = H /\ message_q = << >>) =>
            [](/\ cpc = "idle" =>
                    \A s \in Togglable :
                        Net(message_q, s) = (IF s \in handlers THEN 1 ELSE 0)
                                            - (IF s \in H THEN 1 ELSE 0)
               /\ \A s \in H : \A i \in TogglesOf(s) :
                    (\A k \in TogglesOf(s) : i <= k)
                        => message_q[i].cmd = "UNSUBSCRIBE"
               /\ \A s \in Togglable \ H : \A i \in TogglesOf(s) :
                    (\A k \in TogglesOf(s) : i <= k)
                        => message_q[i].cmd = "SUBSCRIBE")

\* two calls have returned: the first removed a handler given at
\* construction, the second installed it again, so that it is installed with
\* one UNSUBSCRIBE followed by one SUBSCRIBE enqueued for it; another
\* togglable handler is installed with no command enqueued for it at all
C25_Witness ==
    /\ cpc = "idle"
    /\ modify.done
    /\ \E s \in Togglable \cap handlers :
          /\ Net(message_q, s) = 0
          /\ \E i, j \in TogglesOf(s) :
                /\ i < j
                /\ message_q[i].cmd = "UNSUBSCRIBE"
                /\ message_q[j].cmd = "SUBSCRIBE"
    /\ \E s \in Togglable \cap handlers : TogglesOf(s) = {}

====
